---- MODULE Spec2Model ----
(***************************************************************************)
(* The indicator trace's plot() (src/unnamed/part_001, lines 670-1266) as  *)
(* a state machine: one render call per Render step, and one step per      *)
(* callback that d3's transition timer makes into the handlers plot()      *)
(* registers (the tween factory at the start of a transition, a tween      *)
(* frame, the 'end' handler, the 'interrupt' handler).                     *)
(*                                                                         *)
(* plot() uses the d3 v3 API (d3.svg.arc, transition.each('end', ...)).    *)
(* Its transition life cycle fixes when the registered handlers run:       *)
(*   - selection.transition() only schedules; nothing runs inside plot();  *)
(*   - a scheduled transition starts on a later timer callback, in order   *)
(*     of creation; starting it fires 'interrupt' on the transition that   *)
(*     is active on the same node, and then calls the tween factories;     *)
(*   - an active transition draws frames until its last frame (t = 1),     *)
(*     after which 'end' fires; removing a node stops nothing.             *)
(***************************************************************************)
EXTENDS Integers, Sequences, FiniteSets, TLC

\* Number of plot() calls explored.
MaxRenders == 2

\* Math.PI, in degrees so that the angles stay integers.
PI == 180

-----------------------------------------------------------------------------
\* Inputs of a render call.

\* cd[0]: the calcdata item of the trace ({y, lastY, delta, relativeDelta}).
CalcData ==
    { [y |-> 4, lastY |-> 0, delta |-> 4, relativeDelta |-> 2],
      [y |-> 0, lastY |-> 4, delta |-> -4, relativeDelta |-> -2] }

\* trace.domain over the whole canvas, in hundredths.
FullDomain == [x |-> <<0, 100>>, y |-> <<0, 100>>]

\* trace attributes that plot() reads (the fully defaulted trace): mode,
\* gauge.shape, delta.position, delta.showpercentage, min, max, gauge.steps
\* (by name), gauge.threshold.value (0: none) and domain.
TraceSpecs ==
    { [mode |-> {"bignumber", "delta"}, shape |-> "angular", position |-> "bottom",
       showpercentage |-> FALSE, min |-> 0, max |-> 4,
       steps |-> << >>, threshold |-> 0, domain |-> FullDomain],
      [mode |-> {"delta"}, shape |-> "angular", position |-> "bottom",
       showpercentage |-> TRUE, min |-> 0, max |-> 4,
       steps |-> << >>, threshold |-> 0, domain |-> FullDomain],
      [mode |-> {"gauge"}, shape |-> "angular", position |-> "bottom",
       showpercentage |-> FALSE, min |-> 0, max |-> 4,
       steps |-> << >>, threshold |-> 0, domain |-> FullDomain],
      [mode |-> {"gauge"}, shape |-> "bullet", position |-> "bottom",
       showpercentage |-> FALSE, min |-> 0, max |-> 4,
       steps |-> << >>, threshold |-> 0, domain |-> FullDomain],
      [mode |-> {"number"}, shape |-> "angular", position |-> "bottom",
       showpercentage |-> FALSE, min |-> 0, max |-> 4,
       steps |-> << >>, threshold |-> 0, domain |-> FullDomain] }

\* The ways plot() is called: plot(gd, cdModule), and
\* plot(gd, cdModule, transitionOpts, makeOnCompleteCallback) with a duration
\* of 0 or of 500.
Calls ==
    { [given |-> FALSE, duration |-> 0, mk |-> FALSE],
      [given |-> TRUE, duration |-> 0, mk |-> TRUE],
      [given |-> TRUE, duration |-> 500, mk |-> TRUE] }

\* fullLayout._size
fullLayoutSize == [w |-> 40, h |-> 40, l |-> 0, r |-> 0, t |-> 0, b |-> 0]

-----------------------------------------------------------------------------
\* Pure helpers of plot().

\* String.prototype.indexOf(flag) !== -1 on a flaglist "a+b+c", kept as its
\* set of flags: a flag is found when it is a substring of one of them.
SubstringOf(flag, word) ==
    \/ flag = word
    \/ flag = "number" /\ word = "bignumber"

ModeHas(spec, flag) == \E word \in spec.mode : SubstringOf(flag, word)

hasBigNumber(spec) == ModeHas(spec, "bignumber")
hasDelta(spec) == ModeHas(spec, "delta")
hasGauge(spec) == ModeHas(spec, "gauge")
isAngular(spec) == hasGauge(spec) /\ spec.shape = "angular"
isBulletByShape(spec) == spec.shape = "bullet"
isBullet(spec) == hasGauge(spec) /\ spec.shape = "bullet"

hasTransition(opts) == opts.given /\ opts.duration > 0

Min2(a, b) == IF a < b THEN a ELSE b
Max2(a, b) == IF a > b THEN a ELSE b

\* theta = Math.PI / 2
theta == PI \div 2

valueToAngleUnclamped(spec, v) ==
    ((v - spec.min) * PI) \div (spec.max - spec.min) - theta

valueToAngle(spec, v) ==
    LET angle == ((v - spec.min) * PI) \div (spec.max - spec.min) - theta
    IN  IF angle < -theta THEN -theta
        ELSE IF angle > theta THEN theta
        ELSE angle

\* ax.c2p of the mocked linear axis: linear over ax.range onto its length.
c2p(spec, v) == ((v - spec.min) * fullLayoutSize.w) \div (spec.max - spec.min)

\* Math.max(0, ax.c2p(Math.min(trace.max, cd[0].y)))
bulletWidth(spec, cd) == Max2(0, c2p(spec, Min2(spec.max, cd.y)))

deltaValue(spec, d) == IF spec.showpercentage THEN d.relativeDelta ELSE d.delta

\* Texts and attributes are kept as what they show: a kind and a value.
NoText == [k |-> "", v |-> 0]
numberText(v) == [k |-> "number", v |-> v]

deltaFormatText(value) ==
    IF value = 0 THEN [k |-> "-", v |-> 0]
    ELSE [k |-> (IF value > 0 THEN "increasing" ELSE "decreasing"), v |-> value]

\* deltaFill: the colour of the delta, as the direction it stands for.
deltaFill(d) == IF d.delta >= 0 THEN "increasing" ELSE "decreasing"

\* d3.interpolateNumber(a, b)(t), at the frame t = 1/2.
interpolateNumber(a, b) == (a + b) \div 2

\* What a tween of the given element group writes for the value v.
Frame(kind, v) ==
    CASE kind = "number" -> numberText(v)
      [] kind = "delta" -> deltaFormatText(v)
      [] kind = "fgArc" -> [k |-> "d", v |-> v]
      [] kind = "fgBullet" -> [k |-> "width", v |-> v]

Reverse(s) == [i \in 1..Len(s) |-> s[Len(s) + 1 - i]]

\* The data bound to the tspans of text.numbers.
tspanData(spec) ==
    LET data == (IF hasBigNumber(spec) THEN <<"number">> ELSE <<>>)
                \o (IF hasDelta(spec) THEN <<"delta">> ELSE <<>>)
    IN  IF spec.position = "left" THEN Reverse(data) ELSE data

sizeMarginsSwapped(canvas, domain) ==
    [w |-> (canvas.w * (domain.x[2] - domain.x[1])) \div 100,
     h |-> (canvas.h * (domain.y[2] - domain.y[1])) \div 100,
     l |-> canvas.l + (canvas.w * (100 - domain.x[2])) \div 100,
     r |-> canvas.r + (canvas.w * domain.x[1]) \div 100,
     t |-> canvas.t + (canvas.h * (100 - domain.y[2])) \div 100,
     b |-> canvas.b + (canvas.h * domain.y[1]) \div 100]

\* Domain size: Lib.extendFlat({}, fullLayout._size, {w: ..., ...}); the domain
\* is kept in hundredths.
size(canvas, domain) ==
    [w |-> (canvas.w * (domain.x[2] - domain.x[1])) \div 100,
     h |-> (canvas.h * (domain.y[2] - domain.y[1])) \div 100,
     l |-> canvas.l + (canvas.w * domain.x[1]) \div 100,
     r |-> canvas.r + (canvas.w * (100 - domain.x[2])) \div 100,
     t |-> canvas.t + (canvas.h * (100 - domain.y[2])) \div 100,
     b |-> canvas.b + (canvas.h * domain.y[1]) \div 100]

\* ./constants (the file is not among the sources): innerRadius in hundredths,
\* bulletHeight in pixels, bulletTitleSize and bulletPadding in thousandths.
cn == [innerRadius |-> 75, bulletHeight |-> 35, bulletTitleSize |-> 250,
       bulletPadding |-> 25]

\* position[align] in hundredths, for the default alignment.
position == [left |-> 0, center |-> 50, right |-> 100]
align == "center"

\* fmt(trace.max).length: the number of characters of the formatted maximum.
fmtLength(v) ==
    LET digits(n) == IF n < 10 THEN 1 ELSE IF n < 100 THEN 2 ELSE 3
    IN  IF v < 0 THEN 1 + digits(-v) ELSE digits(v)

\* Lengths of the layout are kept in thousandths of a pixel.
radius(sz) == Min2((850 * sz.w) \div 2, 650 * sz.h - 20000)
innerRadius(sz) == (cn.innerRadius * radius(sz)) \div 100
isWide(sz) == 500 * sz.w > 650 * sz.h - 20000
bulletHeight(sz) == Min2(1000 * cn.bulletHeight, 500 * sz.h)

\* "Position elements" when there is no gauge (766-776).
LayoutFree(spec, sz) ==
    LET bignumberFontSize ==
            Min2((1000 * sz.w) \div fmtLength(spec.max), (1000 * sz.h) \div 3)
        titleFontSize == (35 * bignumberFontSize) \div 100
    IN  [titleX |-> 1000 * sz.l + 10 * sz.w * position[align],
         titleY |-> 1000 * sz.t + Max2(titleFontSize \div 2, 200 * sz.h),
         titleFontSize |-> titleFontSize,
         numbersX |-> 1000 * sz.l + 10 * position[align] * sz.w,
         numbersY |-> 1000 * sz.t + 500 * sz.h,
         numbersMaxWidth |-> 850 * sz.w,
         numbersMaxHeight |-> 1000 * sz.h,
         bignumberFontSize |-> bignumberFontSize,
         deltaFontSize |-> IF hasBigNumber(spec) THEN bignumberFontSize \div 2
                           ELSE bignumberFontSize]

\* With an angular gauge (778-793, 808-810).
LayoutAngular(spec, sz) ==
    LET centerX == 1000 * sz.l + 500 * sz.w
        gaugeY == IF isWide(sz) THEN 1000 * sz.t + 1000 * sz.h - 150 * sz.h
                  ELSE 1000 * sz.t + 500 * sz.h
        bignumberFontSize == (2 * innerRadius(sz)) \div fmtLength(spec.max)
        numbersY == gaugeY - bignumberFontSize \div 2
        titleFontSize == (35 * bignumberFontSize) \div 100
    IN  [titleX |-> 1000 * sz.l + 10 * sz.w * position[align],
         titleY |-> IF isWide(sz)
                    THEN 1000 * sz.t + 125 * sz.h - titleFontSize \div 2
                    ELSE ((numbersY - radius(sz)) + 1000 * sz.t) \div 2,
         titleFontSize |-> titleFontSize,
         numbersX |-> centerX - (85 * innerRadius(sz)) \div 100
                         + (2 * 85 * innerRadius(sz) * position[align]) \div 10000,
         numbersY |-> numbersY,
         numbersMaxWidth |-> (2 * innerRadius(sz) * 85) \div 100,
         numbersMaxHeight |-> (innerRadius(sz) * 85) \div 100,
         bignumberFontSize |-> bignumberFontSize,
         deltaFontSize |-> IF hasBigNumber(spec) THEN (35 * bignumberFontSize) \div 100
                           ELSE (75 * bignumberFontSize) \div 100]

\* With a bullet gauge (794-810).
LayoutBullet(spec, sz) ==
    LET padding == cn.bulletPadding
        p == (1000 - cn.bulletTitleSize) + padding
        bignumberFontSize ==
            Min2((200 * sz.w) \div fmtLength(spec.max), bulletHeight(sz))
        numbersY == 1000 * sz.t + 500 * sz.h
    IN  [titleX |-> 1000 * sz.l
                      + ((cn.bulletTitleSize - padding) * sz.w * position[align]) \div 100,
         titleY |-> numbersY,
         titleFontSize |-> (40 * bignumberFontSize) \div 100,
         numbersX |-> 1000 * sz.l + (p + ((1000 - p) * position[align]) \div 100) * sz.w,
         numbersY |-> numbersY,
         numbersMaxWidth |-> (cn.bulletTitleSize - padding) * sz.w,
         numbersMaxHeight |-> 1000 * sz.h,
         bignumberFontSize |-> bignumberFontSize,
         deltaFontSize |-> IF hasBigNumber(spec) THEN bignumberFontSize \div 2
                           ELSE (75 * bignumberFontSize) \div 100]

LayoutAlwaysFree(spec, sz) == LayoutFree(spec, sz)

LayoutDeltaHalfOrEqual(spec, sz) ==
    LET at == IF ~hasGauge(spec) THEN LayoutFree(spec, sz)
              ELSE IF isAngular(spec) THEN LayoutAngular(spec, sz)
              ELSE LayoutBullet(spec, sz)
    IN  [at EXCEPT !.deltaFontSize = IF hasBigNumber(spec) THEN at.bignumberFontSize \div 2
                                     ELSE at.bignumberFontSize]

\* "Position elements" (750-828): the position, font size and allotted box of
\* the title and of the numbers; a delta on top of the number moves the
\* numbers down by its font size.
Layout(spec, sz) ==
    LET at == IF ~hasGauge(spec) THEN LayoutFree(spec, sz)
              ELSE IF isAngular(spec) THEN LayoutAngular(spec, sz)
              ELSE LayoutBullet(spec, sz)
    IN  IF hasDelta(spec) /\ hasBigNumber(spec) /\ spec.position = "top"
        THEN [at EXCEPT !.numbersY = @ + at.deltaFontSize]
        ELSE at

\* A scene element: its class, what it draws, and its children in document
\* order.
Element(cls, role) == [cls |-> cls, role |-> role, kids |-> << >>]

\* parent.selectAll(cls).data(data), enter().append(...), exit().remove(): the
\* i-th element of the class, in document order, is bound to data[i]; the
\* elements beyond the data are removed; the missing ones are appended, in
\* order, as the last children of the parent.
JoinAppendsAll(kids, cls, data) ==
    kids \o [i \in 1..Len(data) |-> Element(cls, data[i])]

JoinKeepsExit(kids, cls, data) ==
    LET rank(p) == Cardinality({q \in 1..p : kids[q].cls = cls})
        have == IF kids = << >> THEN 0 ELSE rank(Len(kids))
        bound == [p \in 1..Len(kids) |->
                    IF kids[p].cls = cls /\ rank(p) <= Len(data)
                    THEN [kids[p] EXCEPT !.role = data[rank(p)]]
                    ELSE kids[p]]
    IN  bound \o [i \in 1..(Len(data) - have) |-> Element(cls, data[have + i])]

Join(kids, cls, data) ==
    LET rank(p) == Cardinality({q \in 1..p : kids[q].cls = cls})
        have == IF kids = << >> THEN 0 ELSE rank(Len(kids))
        bound == [p \in 1..Len(kids) |->
                    IF kids[p].cls # cls THEN kids[p]
                    ELSE IF rank(p) <= Len(data)
                    THEN [kids[p] EXCEPT !.role = data[rank(p)]]
                    ELSE [kids[p] EXCEPT !.role = "exit"]]
        kept == SelectSeq(bound, LAMBDA e : e.role # "exit")
    IN  kept \o [i \in 1..(Len(data) - have) |-> Element(cls, data[have + i])]

\* cd.filter(function() {return flag;})
Filtered(flag, role) == IF flag THEN <<role>> ELSE << >>

\* [gaugeBg].concat(trace.gauge.steps), and the threshold arc if(v)
arcs(spec) == <<"bg">> \o spec.steps \o Filtered(spec.threshold # 0, "threshold")

\* The children of g.gauge (1122-1154).
gaugeKids(kids, spec) ==
    Join(Join(Join(kids, "targetArc", arcs(spec)),
              "fgArc", <<"value">>),
         "gaugeOutline", <<"outline">>)

\* The children of g.bullet (1207-1263).
bulletKids(kids, spec) ==
    Join(Join(Join(Join(kids, "targetBullet", <<"bg">> \o spec.steps),
                   "fgBullet", <<"value">>),
              "threshold", Filtered(spec.threshold # 0, "threshold")),
         "bulletOutline", <<"outline">>)

\* The children of the elements of a class, joined to their data: the tspans
\* of the numbers (872-883), the children of g.gauge and of g.bullet.
WithKids(top, cls, spec) ==
    [p \in 1..Len(top) |->
        IF top[p].cls # cls THEN top[p]
        ELSE [top[p] EXCEPT !.kids =
                IF cls = "numbers" THEN Join(@, "tspan", tspanData(spec))
                ELSE IF cls = "gauge" THEN gaugeKids(@, spec)
                ELSE bulletKids(@, spec)]]

\* The elements of the trace group after plotGroup.each (830-1264): title,
\* numbers and its tspans, g.gauge, g.angularaxis, g.bullet, g.bulletaxis, each
\* joined to its data; the ticks and labels of an axis layer are removed and
\* drawn again by the axes code.
plotGroup(top, spec) ==
    LET titled == Join(top, "title", <<"title">>)
        numbered == WithKids(Join(titled, "numbers", <<"numbers">>), "numbers", spec)
        angular == Join(Join(numbered, "gauge", Filtered(isAngular(spec), "gauge")),
                        "angularaxis", Filtered(isAngular(spec), "axis"))
        arced == WithKids(angular, "gauge", spec)
        bullet == Join(Join(arced, "bullet", Filtered(isBullet(spec), "bullet")),
                       "bulletaxis", Filtered(isBullet(spec), "axis"))
    IN  WithKids(bullet, "bullet", spec)

-----------------------------------------------------------------------------
VARIABLES
    renders,    \* number of plot() calls made
    trace,      \* the trace object: its attributes and _deltaLastValue
    layer,      \* the animated nodes attached under the trace group
    dom,        \* class, bound datum and shown text/attribute of each node
    timers,     \* d3's transitions, in order of creation
    handles,    \* per plot() call: the completion handle and its invocations
    done,       \* finished transitions: the event fired and what it did
    scene,      \* the elements under the trace group, in document order
    probe       \* a helper of plot() on its own: its arguments and its result

vars == <<renders, trace, layer, dom, timers, handles, done, scene, probe>>

Slots == {"tspan0", "tspan1", "fgArc", "fgBullet"}

NoDatum == [y |-> 0, lastY |-> 0, delta |-> 0, relativeDelta |-> 0]
NoNode == [cls |-> "", datum |-> NoDatum, shown |-> NoText]

NodeOf(slot) == <<slot, layer[slot]>>
Attached == {NodeOf(s) : s \in {s \in Slots : layer[s] # 0}}

\* The transitions of a node that are scheduled or active (its lock).
IndexesOn(ts, node) == {i \in 1..Len(ts) : ts[i].node = node}

\* A transition is scheduled, then started (its tweens are made, its first
\* frame is due at the end of the same run of the timer), then running.
IsActive(t) == t.phase \in {"started", "running"}

\* The first frame of a transition is deferred to the end of the run of the
\* timer that started it, after every scheduled transition has been started;
\* the later frames come first in a run, before the transitions it starts.
FrameDue(ts, i) ==
    \/ ts[i].phase = "running"
    \/ ts[i].phase = "started" /\ \A j \in 1..Len(ts) : ts[j].phase # "scheduled"

RemoveAt(s, i) == [j \in 1..(Len(s) - 1) |-> IF j < i THEN s[j] ELSE s[j + 1]]

NoLayout ==
    [titleX |-> 0, titleY |-> 0, titleFontSize |-> 0, numbersX |-> 0,
     numbersY |-> 0, numbersMaxWidth |-> 0, numbersMaxHeight |-> 0,
     bignumberFontSize |-> 0, deltaFontSize |-> 0]

\* The trace of a layer that holds no trace yet.
NoTrace == CHOOSE s \in TraceSpecs : s.mode = {"number"}

\* The trace group when nothing is drawn: its elements, the layout of the
\* last call and the trace of the call before it.
NoScene == [top |-> << >>, layout |-> NoLayout, prev |-> NoTrace, calls |-> 0]

\* No helper is called on its own.
NoProbe == [f |-> "", in |-> << >>, applied |-> FALSE, out |-> << >>]

\* Before the first call of plot().
InitPlot ==
    /\ renders = 0
    /\ trace = [attrs |-> NoTrace,
                deltaLastValue |-> [set |-> FALSE, v |-> 0]]
    /\ layer = [s \in Slots |-> 0]
    /\ dom = [n \in {} |-> NoNode]
    /\ timers = << >>
    /\ handles = << >>
    /\ done = {}
    /\ scene = NoScene

Init == InitPlot /\ probe = NoProbe

-----------------------------------------------------------------------------
\* plot(gd, cdModule, transitionOpts, makeOnCompleteCallback)

\* The completion handle of a call: onComplete = makeOnCompleteCallback().
NewHandleAlways(opts, mk) == mk

NewHandle(opts, mk) == hasTransition(opts) /\ mk

\* The record of a call: its handle, the invocations of the handle so far, the
\* element groups it scheduled a transition on, and the value and the delta it
\* was asked to show (when it drew a delta at all).
Call(opts, mk, started, inst, spec, cd) ==
    [made |-> NewHandle(opts, mk), calls |-> 0, started |-> started,
     animated |-> hasTransition(opts), y |-> cd.y,
     delta |-> IF inst /\ hasDelta(spec)
               THEN [drawn |-> TRUE, v |-> deltaValue(spec, cd)]
               ELSE [drawn |-> FALSE, v |-> 0]]

\* Lib.makeTraceGroups with an empty cdModule: the trace group leaves the layer
\* with everything under it; the loop body never runs.
RenderNone(opts, mk) ==
    /\ renders' = renders + 1
    /\ handles' = Append(handles, Call(opts, mk, {}, FALSE, trace.attrs, NoDatum))
    /\ layer' = [s \in Slots |-> 0]
    /\ dom' = [n \in {timers[i].node : i \in 1..Len(timers)} |-> dom[n]]
    /\ scene' = NoScene
    /\ UNCHANGED <<trace, timers, done, probe>>

\* The generation of the node in a slot after the data join: the node that is
\* there is kept, a missing one is appended, one without data is removed.
Joined(slot, wanted, r) ==
    IF ~wanted THEN 0 ELSE IF layer[slot] # 0 THEN layer[slot] ELSE r

\* What the non-transition branch writes into a node of the given class.
FinalShown(cls, spec, cd) ==
    CASE cls = "number" -> numberText(cd.y)
      [] cls = "delta" -> deltaFormatText(deltaValue(spec, cd))
      [] cls = "fgArc" -> [k |-> "d", v |-> valueToAngle(spec, cd.y)]
      [] cls = "fgBullet" -> [k |-> "width", v |-> bulletWidth(spec, cd)]

\* The transition plot() schedules on a node of the given class. The arc tween
\* is given its two angles and the bullet its target width in the call; the
\* number tween closes over cd and, like the delta tween, makes its
\* interpolator when the transition starts.
NewTransition(r, cls, node, spec, cd) ==
    [r |-> r, kind |-> cls, node |-> node, phase |-> "scheduled", cd |-> cd,
     a |-> IF cls = "fgArc" THEN valueToAngle(spec, cd.lastY) ELSE 0,
     b |-> CASE cls = "fgArc" -> valueToAngle(spec, cd.y)
             [] cls = "fgBullet" -> bulletWidth(spec, cd)
             [] OTHER -> 0]

InitDeltaLastValueAlways(tr) == [set |-> TRUE, v |-> 0]

\* if(!trace._deltaLastValue) trace._deltaLastValue = 0;
InitDeltaLastValue(tr) ==
    IF ~tr.deltaLastValue.set \/ tr.deltaLastValue.v = 0
    THEN [set |-> TRUE, v |-> 0]
    ELSE tr.deltaLastValue

RenderOne(spec, cd, opts, mk) ==
    LET r == renders + 1
        data == tspanData(spec)
        wanted == [s \in Slots |->
                     CASE s = "tspan0" -> Len(data) >= 1
                       [] s = "tspan1" -> Len(data) >= 2
                       [] s = "fgArc" -> isAngular(spec)
                       [] s = "fgBullet" -> isBullet(spec)]
        cls == [s \in Slots |->
                     CASE s = "tspan0" /\ wanted[s] -> data[1]
                       [] s = "tspan1" /\ wanted[s] -> data[2]
                       [] OTHER -> s]
        newLayer == [s \in Slots |-> Joined(s, wanted[s], r)]
        present == {s \in Slots : newLayer[s] # 0}
        old(s) == IF layer[s] # 0 THEN dom[NodeOf(s)] ELSE NoNode
        node(s) == [cls |-> cls[s],
                    datum |-> IF s = "fgArc" THEN NoDatum ELSE cd,
                    shown |-> IF hasTransition(opts) THEN old(s).shown
                              ELSE FinalShown(cls[s], spec, cd)]
        \* number, delta, fgArc, fgBullet: the order plot() makes them in
        order == <<"number", "delta", "fgArc", "fgBullet">>
        slotOf(c) == {s \in present : cls[s] = c}
        made == [i \in 1..4 |->
                   IF hasTransition(opts) /\ slotOf(order[i]) # {}
                   THEN LET s == CHOOSE s \in slotOf(order[i]) : TRUE
                        IN  <<NewTransition(r, order[i], <<s, newLayer[s]>>, spec, cd)>>
                   ELSE << >>]
        newTimers == timers \o made[1] \o made[2] \o made[3] \o made[4]
        live == {newTimers[i].node : i \in 1..Len(newTimers)}
        kept == {<<s, newLayer[s]>> : s \in present}
    IN  /\ renders' = r
        /\ handles' = Append(handles,
                        Call(opts, mk, {newTimers[i].kind : i \in (Len(timers) + 1)..Len(newTimers)},
                             TRUE, spec, cd))
        /\ trace' = [attrs |-> spec, deltaLastValue |-> InitDeltaLastValue(trace)]
        /\ layer' = newLayer
        /\ dom' = [n \in kept \cup live |->
                     IF n \in kept THEN node(n[1]) ELSE dom[n]]
        /\ timers' = newTimers
        /\ scene' = [top |-> plotGroup(scene.top, spec),
                     layout |-> Layout(spec, size(fullLayoutSize, spec.domain)),
                     prev |-> trace.attrs,
                     calls |-> scene.calls + 1]
        /\ UNCHANGED <<done, probe>>

Render ==
    /\ renders < MaxRenders
    /\ \E c \in Calls :
          \/ RenderNone(c, c.mk)
          \/ \E spec \in TraceSpecs, cd \in CalcData : RenderOne(spec, cd, c, c.mk)

-----------------------------------------------------------------------------
\* The handlers plot() registers on its transitions. Each yields the trace it
\* leaves, how many times it calls "onComplete && onComplete()", and the
\* trace._deltaLastValue that call finds.

EndHandlerCallbackFirst(kind, tr, d) ==
    IF kind = "delta"
    THEN [trace |-> [tr EXCEPT !.deltaLastValue.v = deltaValue(tr.attrs, d)],
          cb |-> 1,
          saw |-> tr.deltaLastValue.v]
    ELSE [trace |-> tr, cb |-> 1, saw |-> tr.deltaLastValue.v]

EndHandlerCommitsRaw(kind, tr, d) ==
    IF kind = "delta"
    THEN [trace |-> [tr EXCEPT !.deltaLastValue.v = d.delta],
          cb |-> 1,
          saw |-> d.delta]
    ELSE [trace |-> tr, cb |-> 1, saw |-> tr.deltaLastValue.v]

\* .each('end', ...): only the delta's handler writes, and it writes first.
EndHandler(kind, tr, d) ==
    IF kind = "delta"
    THEN [trace |-> [tr EXCEPT !.deltaLastValue.v = deltaValue(tr.attrs, d)],
          cb |-> 1,
          saw |-> deltaValue(tr.attrs, d)]
    ELSE [trace |-> tr, cb |-> 1, saw |-> tr.deltaLastValue.v]

InterruptHandlerSilent(kind, tr, d) ==
    [trace |-> tr, cb |-> 0, saw |-> tr.deltaLastValue.v]

InterruptHandlerTwice(kind, tr, d) ==
    [trace |-> tr, cb |-> 2, saw |-> tr.deltaLastValue.v]

InterruptHandlerCommits(kind, tr, d) ==
    IF kind = "delta"
    THEN [trace |-> [tr EXCEPT !.deltaLastValue.v = deltaValue(tr.attrs, d)],
          cb |-> 1,
          saw |-> deltaValue(tr.attrs, d)]
    ELSE [trace |-> tr, cb |-> 1, saw |-> tr.deltaLastValue.v]

\* .each('interrupt', ...): the same for the four element groups.
InterruptHandler(kind, tr, d) ==
    [trace |-> tr, cb |-> 1, saw |-> tr.deltaLastValue.v]

\* The tween factories, called when the transition starts: the number's reads
\* cd[0].lastY and cd[0].y, the delta's trace._deltaLastValue and the bound
\* datum; transition.attr('width', w) starts from the attribute the rect has
\* (from w itself when it has none).
TweenFromShown(t, tr, n) ==
    CASE t.kind = "number" -> n.shown.v
      [] t.kind = "delta" -> n.shown.v
      [] t.kind = "fgBullet" -> IF n.shown.k = "width" THEN n.shown.v ELSE t.b
      [] OTHER -> t.a

TweenFrom(t, tr, n) ==
    CASE t.kind = "number" -> t.cd.lastY
      [] t.kind = "delta" -> tr.deltaLastValue.v
      [] t.kind = "fgBullet" -> IF n.shown.k = "width" THEN n.shown.v ELSE t.b
      [] OTHER -> t.a

TweenTo(t, tr, n) ==
    CASE t.kind = "number" -> t.cd.y
      [] t.kind = "delta" -> deltaValue(tr.attrs, n.datum)
      [] OTHER -> t.b

InvokeLatest(hs, r, n) ==
    IF hs[Len(hs)].made THEN [hs EXCEPT ![Len(hs)].calls = @ + n] ELSE hs

\* onComplete && onComplete(), n times, on the handle of call r.
Invoke(hs, r, n) == IF hs[r].made THEN [hs EXCEPT ![r].calls = @ + n] ELSE hs

\* The record of a finished transition: the event, the invocations of the
\* handle its handler made and the _deltaLastValue they found, that value
\* before and after the handler, the end value of its tween, the datum bound
\* to its node and the attributes of the trace.
Finished(t, ev, h) ==
    [r |-> t.r, kind |-> t.kind, ev |-> ev,
     cb |-> IF handles[t.r].made THEN h.cb ELSE 0, saw |-> h.saw,
     pre |-> trace.deltaLastValue.v, post |-> h.trace.deltaLastValue.v,
     b |-> t.b, d |-> dom[t.node].datum, attrs |-> trace.attrs]

\* Nodes that are neither attached nor animated are dropped.
Sweep(d, ts) ==
    [n \in {n \in DOMAIN d : n \in Attached \/ IndexesOn(ts, n) # {}} |-> d[n]]

\* The timer starts the oldest scheduled transition: it interrupts the
\* transition active on the node, then initialises its own tweens.
Start ==
    \E i \in 1..Len(timers) :
        /\ timers[i].phase = "scheduled"
        /\ \A j \in 1..(i - 1) : IsActive(timers[j])
        /\ LET t == timers[i]
               n == dom[t.node]
               active == {j \in IndexesOn(timers, t.node) : IsActive(timers[j])}
           IN  IF active = {}
               THEN /\ timers' = [timers EXCEPT ![i] =
                                    [t EXCEPT !.phase = "started",
                                              !.a = TweenFrom(t, trace, n),
                                              !.b = TweenTo(t, trace, n)]]
                    /\ UNCHANGED <<trace, handles, done>>
               ELSE LET j == CHOOSE j \in active : TRUE
                        u == timers[j]
                        h == InterruptHandler(u.kind, trace, n.datum)
                        started == [t EXCEPT !.phase = "started",
                                             !.a = TweenFrom(t, h.trace, n),
                                             !.b = TweenTo(t, h.trace, n)]
                    IN  /\ timers' = RemoveAt([timers EXCEPT ![i] = started], j)
                        /\ trace' = h.trace
                        /\ handles' = Invoke(handles, u.r, h.cb)
                        /\ done' = done \cup {Finished(u, "interrupt", h)}
        /\ UNCHANGED <<renders, layer, dom, scene, probe>>

\* A frame before the last one: the tween writes the interpolated value.
Tick ==
    \E i \in 1..Len(timers) :
        /\ FrameDue(timers, i)
        /\ LET t == timers[i]
           IN  dom' = [dom EXCEPT ![t.node].shown =
                         Frame(t.kind, interpolateNumber(t.a, t.b))]
        /\ timers' = [timers EXCEPT ![i].phase = "running"]
        /\ UNCHANGED <<renders, trace, layer, handles, done, scene, probe>>

\* The last frame (t = 1): the tween writes the end value, then 'end' fires.
End ==
    \E i \in 1..Len(timers) :
        /\ FrameDue(timers, i)
        /\ LET t == timers[i]
               h == EndHandler(t.kind, trace, dom[t.node].datum)
               left == RemoveAt(timers, i)
           IN  /\ timers' = left
               /\ dom' = Sweep([dom EXCEPT ![t.node].shown = Frame(t.kind, t.b)], left)
               /\ trace' = h.trace
               /\ handles' = Invoke(handles, t.r, h.cb)
               /\ done' = done \cup {Finished(t, "end", h)}
        /\ UNCHANGED <<renders, layer, scene, probe>>

Next == Render \/ Start \/ Tick \/ End

Spec == Init /\ [][Next]_vars

-----------------------------------------------------------------------------
\* Scene composition: plot() called without transition options, for traces
\* that differ in mode, gauge shape, steps and threshold.

Gauge(mode, shape, steps, threshold) ==
    [mode |-> mode, shape |-> shape, position |-> "bottom",
     showpercentage |-> FALSE, min |-> 0, max |-> 4,
     steps |-> steps, threshold |-> threshold, domain |-> FullDomain]

SceneTraces ==
    TraceSpecs \cup
    { Gauge({"bignumber"}, "angular", << >>, 0),
      Gauge({"bignumber", "gauge"}, "angular", << >>, 0),
      Gauge({"bignumber"}, "bullet", << >>, 0),
      Gauge({"bignumber", "gauge"}, "bullet", << >>, 0),
      Gauge({"gauge"}, "angular", <<"step1">>, 0),
      Gauge({"gauge"}, "angular", <<"step1", "step2">>, 3),
      Gauge({"gauge"}, "bullet", <<"step1">>, 3),
      Gauge({"bignumber", "delta", "gauge"}, "bullet", <<"step1", "step2">>, 0),
      Gauge({"delta", "gauge"}, "bullet", << >>, 0),
      Gauge({"delta", "gauge"}, "angular", << >>, 0),
      Gauge({"bignumber", "delta", "gauge"}, "angular", << >>, 0),
      [Gauge({"bignumber", "delta"}, "angular", << >>, 0) EXCEPT !.position = "left"] }

\* plot(gd, cdModule): no transition options, no makeOnCompleteCallback.
Synchronous == CHOOSE c \in Calls : ~c.given

ComposeNone ==
    /\ renders < MaxRenders
    /\ RenderNone(Synchronous, Synchronous.mk)

ComposeOne ==
    /\ renders < MaxRenders
    /\ \E spec \in SceneTraces :
          RenderOne(spec, CHOOSE cd \in CalcData : cd.y = 4, Synchronous, Synchronous.mk)

SceneNext == ComposeNone \/ ComposeOne

SceneSpec == Init /\ [][SceneNext]_vars

-----------------------------------------------------------------------------
\* The helpers of plot() on their own: the arguments are drawn from bounded
\* sets, and a step applies the helper to them.

\* Largest trace.max explored; the values mapped range a little beyond it.
MaxValue == 4

\* trace.min and trace.max as supplyDefaults leaves them: any two numbers,
\* max = min included (max defaults to 1.5 * value, which is 0 for value 0).
Ranges == {[min |-> lo, max |-> hi] : lo \in {-2, 0, 2}, hi \in (-2)..MaxValue}

MappedValues == (-MaxValue - 1)..(MaxValue + 1)

\* valueToAngle as the JavaScript number it returns. With trace.max equal to
\* trace.min the quotient (v - min) / (max - min) is 0 / 0 = NaN for v = min
\* and +-Infinity otherwise; NaN fails both comparisons and is returned.
valueToAngleNumber(spec, v) ==
    IF spec.max = spec.min
    THEN IF v = spec.min THEN [nan |-> TRUE, v |-> 0]
         ELSE [nan |-> FALSE, v |-> IF v > spec.min THEN theta ELSE -theta]
    ELSE [nan |-> FALSE, v |-> valueToAngle(spec, v)]

\* The rect of a background or step of the bullet:
\* x = ax.c2p(d.range[0]), width = Math.max(0, ax.c2p(d.range[1] - d.range[0]))
targetBulletRect(spec, d) ==
    [x |-> c2p(spec, d.range[1]),
     width |-> Max2(0, c2p(spec, d.range[2] - d.range[1]))]

\* gaugeBg and gaugeOutline: range: [trace.min, trace.max]
gaugeBg(spec) == [range |-> <<spec.min, spec.max>>]
gaugeOutline(spec) == [range |-> <<spec.min, spec.max>>]

\* The rect of the outline of the bullet, computed as that of the background.
bulletOutlineRect(spec, d) ==
    [x |-> c2p(spec, d.range[1]),
     width |-> Max2(0, c2p(spec, d.range[2] - d.range[1]))]

\* The x1 and x2 of the threshold line of the bullet.
thresholdX(spec, value) == c2p(spec, value)

\* fitTextInside: Math.min(width / textBB.width, height / textBB.height), in
\* thousandths.
fitTextInside(textBB, width, height) ==
    Min2((1000 * width) \div textBB.width, (1000 * height) \div textBB.height)

transformScaleUncapped(scaleRatio) == scaleRatio

\* The scale of the transform: (scaleRatio < 1 ? 'scale(' + scaleRatio + ')' : ''),
\* in thousandths; no scale() leaves the text at its size.
transformScale(scaleRatio) == IF scaleRatio < 1000 THEN scaleRatio ELSE 1000

\* a / b as the JavaScript number it is, for b >= 0: a finite quotient kept as
\* a fraction, or NaN (0 / 0), Infinity, -Infinity.
Divide(a, b) ==
    IF b # 0 THEN [kind |-> "finite", num |-> a, den |-> b]
    ELSE IF a = 0 THEN [kind |-> "NaN", num |-> 0, den |-> 1]
    ELSE IF a > 0 THEN [kind |-> "Infinity", num |-> 1, den |-> 1]
    ELSE [kind |-> "-Infinity", num |-> -1, den |-> 1]

\* x < y on JavaScript numbers: false when either is NaN.
LessThan(x, y) ==
    /\ x.kind # "NaN" /\ y.kind # "NaN"
    /\ x.kind # "Infinity" /\ y.kind # "-Infinity"
    /\ \/ x.kind = "-Infinity"
       \/ y.kind = "Infinity"
       \/ x.num * y.den < y.num * x.den

\* Math.min(x, y): NaN when either is NaN.
MathMin(x, y) ==
    IF x.kind = "NaN" THEN x
    ELSE IF y.kind = "NaN" THEN y
    ELSE IF LessThan(y, x) THEN y ELSE x

One == [kind |-> "finite", num |-> 1, den |-> 1]

\* fitTextInside as the JavaScript number it returns, for any box and any
\* allotted width and height (thousandths of a pixel over pixels).
fitTextInsideNumber(textBB, width, height) ==
    MathMin(Divide(width, 1000 * textBB.width), Divide(height, 1000 * textBB.height))

\* "Resize numbers to fit": the scale of the transform of the numbers, in the
\* box that the layout allots to them; scaled is whether 'scale(' +
\* scaleRatio + ')' is part of the transform.
numbersTransform(spec, sz, textBB) ==
    LET at == Layout(spec, sz)
        scaleRatio == fitTextInsideNumber(textBB, at.numbersMaxWidth, at.numbersMaxHeight)
    IN  [scaled |-> LessThan(scaleRatio, One), scaleRatio |-> scaleRatio]

\* Domain sizes down to an empty one, and text boxes down to an empty one.
TransformProbes ==
    {[f |-> "numbersTransform",
      in |-> [spec |-> s, size |-> [w |-> w, h |-> h, l |-> 0, r |-> 0, t |-> 0, b |-> 0],
              textBB |-> [width |-> bw, height |-> bh]],
      applied |-> FALSE, out |-> << >>] :
        s \in {t \in TraceSpecs : t.mode # {"delta"}},
        w \in {0, 40}, h \in {0, 20, 40}, bw \in {0, 20}, bh \in {0, 10}}

\* attributes (./attributes, the file is not among the sources): the default
\* of min.
attributes == [min |-> [dflt |-> 0]]

\* Lib.coerce(traceIn, traceOut, attributes, attr, dflt): the value given for
\* the attribute, or the default.
coerce(traceIn, attr, dflt) == IF attr \in traceIn.given THEN traceIn[attr] ELSE dflt

\* The attributes that supplyDefaults sets on traceOut, by path; a step of
\* gauge.steps is written "[]".
stepDefaults ==
    {<<"gauge", "steps", "[]", "color">>, <<"gauge", "steps", "[]", "line", "color">>,
     <<"gauge", "steps", "[]", "line", "width">>, <<"gauge", "steps", "[]", "range">>,
     <<"gauge", "steps", "[]", "size">>}

Coerced(traceIn) ==
    {<<"mode">>, <<"value">>, <<"valueformat">>, <<"min">>, <<"max">>, <<"domain">>,
     <<"number", "font", "color">>, <<"number", "font", "family">>,
     <<"number", "align">>, <<"number", "suffix">>,
     <<"title", "font", "color">>, <<"title", "font", "family">>, <<"title", "text">>,
     <<"gauge", "shape">>, <<"gauge", "bgcolor">>, <<"gauge", "borderwidth">>,
     <<"gauge", "bordercolor">>, <<"gauge", "value", "color">>,
     <<"gauge", "value", "line", "color">>, <<"gauge", "value", "line", "width">>,
     <<"gauge", "value", "size">>, <<"gauge", "steps">>,
     <<"gauge", "threshold", "value">>, <<"gauge", "threshold", "size">>,
     <<"gauge", "threshold", "width">>, <<"gauge", "threshold", "color">>,
     <<"gauge", "axis">>,
     <<"delta", "font", "color">>, <<"delta", "font", "family">>,
     <<"delta", "reference">>, <<"delta", "showpercentage">>,
     <<"delta", "valueformat">>, <<"delta", "increasing", "symbol">>,
     <<"delta", "increasing", "color">>, <<"delta", "decreasing", "symbol">>,
     <<"delta", "decreasing", "color">>, <<"delta", "position">>}
    \cup (IF traceIn.steps > 0 THEN stepDefaults ELSE {})

\* supplyDefaults: traceOut, with the paths it holds; max defaults to
\* 1.5 * traceOut.value.
supplyDefaults(traceIn) ==
    [mode |-> traceIn.mode, shape |-> traceIn.shape, steps |-> traceIn.steps,
     value |-> traceIn.value,
     min |-> coerce(traceIn, "min", attributes.min.dflt),
     max |-> coerce(traceIn, "max", (3 * traceIn.value) \div 2),
     names |-> Coerced(traceIn)]

\* A path is defined on traceOut when supplyDefaults set it, or set something
\* under it.
Defined(traceOut, path) ==
    \E name \in traceOut.names :
        Len(path) <= Len(name) /\ SubSeq(name, 1, Len(path)) = path

\* The paths plot() reads from the trace: those read on every call, and those
\* read from each step of a gauge that is drawn.
Reads(traceOut) ==
    {<<"title", "text">>, <<"mode">>, <<"gauge", "shape">>, <<"domain">>,
     <<"title", "align">>, <<"valueformat">>, <<"number", "suffix">>,
     <<"delta", "valueformat">>, <<"delta", "showpercentage">>,
     <<"delta", "increasing", "symbol">>, <<"delta", "decreasing", "symbol">>,
     <<"delta", "increasing", "color">>, <<"delta", "decreasing", "color">>,
     <<"min">>, <<"max">>, <<"number", "align">>, <<"delta", "position">>,
     <<"title", "font">>, <<"number", "font">>, <<"delta", "font">>,
     <<"gauge", "axis">>, <<"gauge", "bgcolor">>, <<"gauge", "bordercolor">>,
     <<"gauge", "borderwidth">>, <<"gauge", "threshold", "value">>,
     <<"gauge", "threshold", "color">>, <<"gauge", "threshold", "width">>,
     <<"gauge", "threshold", "height">>, <<"gauge", "steps">>,
     <<"gauge", "value", "height">>, <<"gauge", "value", "color">>,
     <<"gauge", "value", "line", "color">>, <<"gauge", "value", "line", "width">>}
    \cup (IF hasGauge(traceOut) /\ traceOut.steps > 0
          THEN {<<"gauge", "steps", "[]", "range">>, <<"gauge", "steps", "[]", "color">>,
                <<"gauge", "steps", "[]", "line", "color">>,
                <<"gauge", "steps", "[]", "line", "width">>}
          ELSE {})
    \cup (IF isAngular(traceOut) /\ traceOut.steps > 0
          THEN {<<"gauge", "steps", "[]", "height">>}
          ELSE {})

\* What plot() finds undefined on a trace that supplyDefaults filled.
Undefined(traceOut) == {path \in Reads(traceOut) : ~Defined(traceOut, path)}

\* traceIn: the attributes the user gives; min and max may be left out.
DefaultsProbes ==
    {[f |-> "supplyDefaults",
      in |-> [given |-> g, mode |-> m, shape |-> sh, steps |-> st,
              value |-> v, min |-> lo, max |-> hi],
      applied |-> FALSE, out |-> << >>] :
        g \in SUBSET {"min", "max"}, m \in {{"bignumber"}, {"gauge"}},
        sh \in {"angular", "bullet"}, st \in {0, 1},
        v \in {-2, 0, 2}, lo \in {0, 2}, hi \in {0, MaxValue}}

\* Objects live in a heap, a sequence indexed by reference; a field that is
\* not set holds "", << >> or 0. An axis object: trace.gauge.axis, or a
\* descriptor made by mockAxis.
NoAxis ==
    [type |-> "", _id |-> "", range |-> << >>, tickmode |-> "", nticks |-> 0,
     direction |-> "", rotation |-> 0, position |-> 0, domain |-> << >>]

\* trace.gauge.axis as the user gives it.
AxisOptions == {[NoAxis EXCEPT !.tickmode = tm, !.nticks = n] :
                    tm \in {"auto", "linear"}, n \in {0, 5}}

mockAxisReusesOpts(heap, opts, zrange) ==
    [heap |-> [heap EXCEPT ![opts].type = "linear", ![opts]._id = "x",
                           ![opts].range = zrange, ![opts].position = 1],
     ax |-> opts]

\* mockAxis(gd, opts, zrange): axisIn copies the options, axisOut is a new
\* object literal that the axis defaults fill from axisIn, and is returned.
mockAxis(heap, opts, zrange) ==
    LET axisIn == [type |-> "linear", range |-> zrange,
                   tickmode |-> heap[opts].tickmode, nticks |-> heap[opts].nticks,
                   position |-> 1]
        axisOut == [NoAxis EXCEPT !.type = "linear", !._id = "x",
                                  !.range = axisIn.range, !.tickmode = axisIn.tickmode,
                                  !.nticks = axisIn.nticks, !.position = axisIn.position]
    IN  [heap |-> Append(heap, axisOut), ax |-> Len(heap) + 1]

\* "Draw angular axis" (987-997): the descriptor and the assignments to it.
angularAxis(heap, opts, spec) ==
    LET made == mockAxis(heap, opts, << >>)
    IN  [heap |-> [made.heap EXCEPT ![made.ax].type = "indicator",
                                    ![made.ax].range = <<spec.min, spec.max>>,
                                    ![made.ax]._id = "angularaxis",
                                    ![made.ax].direction = "clockwise",
                                    ![made.ax].rotation = 180],
         ax |-> made.ax]

\* bulletLeft and bulletRight, in thousandths, for a trace with a title.
bulletLeft == cn.bulletTitleSize
bulletRight(spec) ==
    IF hasBigNumber(spec) \/ hasDelta(spec) THEN 1000 - cn.bulletTitleSize ELSE 1000

\* "Draw cartesian axis" (1168-1174).
bulletAxis(heap, opts, spec) ==
    LET made == mockAxis(heap, opts, <<spec.min, spec.max>>)
    IN  [heap |-> [made.heap EXCEPT ![made.ax].position = 0,
                                    ![made.ax].domain = <<bulletLeft, bulletRight(spec)>>],
         ax |-> made.ax]

\* The axes of one call of plot(): var ax is the angular descriptor, then the
\* bullet one; both are built on every call, whatever the shape.
plotAxes(heap, opts, spec) ==
    LET angular == angularAxis(heap, opts, spec)
        bullet == bulletAxis(angular.heap, opts, spec)
    IN  [heap |-> bullet.heap, made |-> <<angular.ax, bullet.ax>>]

\* A trace whose gauge.axis is the object at reference 1 of the heap.
AxisProbes ==
    {[f |-> "mockAxis", in |-> [heap |-> <<o>>, opts |-> 1, spec |-> s],
      applied |-> FALSE, out |-> << >>] :
        o \in AxisOptions, s \in TraceSpecs}

\* "Elements in trace": the flags plot() derives from trace.mode and
\* trace.gauge.shape.
flags(spec) ==
    [hasBigNumber |-> hasBigNumber(spec), hasDelta |-> hasDelta(spec),
     hasGauge |-> hasGauge(spec), isAngular |-> isAngular(spec),
     isBullet |-> isBullet(spec)]

\* Every mode (a flaglist of bignumber, delta, gauge) with every shape.
FlagProbes ==
    {[f |-> "flags", in |-> [mode |-> m, shape |-> sh], applied |-> FALSE, out |-> << >>] :
        m \in SUBSET {"bignumber", "delta", "gauge"}, sh \in {"angular", "bullet"}}

\* The karma configuration. A suite is named with or without SUFFIX; a
\* string of the command line is the sequence of the names its commas
\* separate.
SUFFIX == "_test.js"

\* path.basename(s, SUFFIX)
basename(s) ==
    CASE s = "bar_test.js" -> "bar"
      [] s = "ie9_test.js" -> "ie9"
      [] OTHER -> s

RECURSIVE Flatten(_)
Flatten(strings) ==
    IF strings = << >> THEN << >>
    ELSE strings[1] \o Flatten([i \in 1..(Len(strings) - 1) |-> strings[i + 1]])

\* merge: every string of the argument (one string or an array) split at the
\* commas, in one list.
merge(strings) == Flatten(strings)

\* glob: one pattern for the names, in braces when there are several.
glob(names) == [braces |-> Len(names) # 1, names |-> names, suffix |-> SUFFIX]

\* path.join(__dirname, dir, pattern)
Path(dir, pattern) == [dir |-> dir, pattern |-> pattern]

isBundleTest(argv) == argv.bundleTest # << >>
isFullSuite(argv) == ~isBundleTest(argv) /\ argv.suites = << >>

testFileGlob(argv) ==
    IF isFullSuite(argv) THEN Path("tests", glob(<<"*">>))
    ELSE IF isBundleTest(argv)
    THEN Path("bundle_tests", glob(<<basename(merge(argv.bundleTest)[1])>>))
    ELSE Path("tests", glob([i \in 1..Len(merge(argv.suites)) |->
                                basename(merge(argv.suites)[i])]))

\* func.defaultConfig.files, once the test file glob is pushed.
files(argv) ==
    LET asset(name) == Path("assets", glob(<<name>>))
        initial == <<asset("custom_matchers.js"), asset("unpolyfill.js"),
                     asset("mathjax"), asset("topojson")>>
        filled == IF isBundleTest(argv)
                  THEN CASE testFileGlob(argv).pattern.names = <<"requirejs">>
                              -> <<asset("require.js"), asset("requirejs_fixture.js")>>
                         [] testFileGlob(argv).pattern.names = <<"minified_bundle">>
                              -> Append(initial, asset("plotly.min.js"))
                         [] testFileGlob(argv).pattern.names = <<"ie9">>
                              -> Append(initial, asset("ie9_mock.js"))
                         [] OTHER -> initial
                  ELSE Append(initial, asset("jquery-1.8.3.min.js"))
    IN  Append(filled, testFileGlob(argv))

browsersAsGiven(argv) ==
    (IF argv.Chrome THEN <<"_Chrome">> ELSE << >>)
        \o (IF argv.Firefox THEN <<"_Firefox">> ELSE << >>)
        \o (IF argv.IE11 THEN <<"IE">> ELSE << >>)

\* "add browsers": those asked for, _Chrome when none is.
browsers(argv) ==
    LET given == (IF argv.Chrome THEN <<"_Chrome">> ELSE << >>)
                 \o (IF argv.Firefox THEN <<"_Firefox">> ELSE << >>)
                 \o (IF argv.IE11 THEN <<"IE">> ELSE << >>)
    IN  IF Len(given) = 0 THEN <<"_Chrome">> ELSE given

\* The module: with --info it prints the help and exits; otherwise
\* func.defaultConfig is what karma is given.
karmaConf(argv) ==
    IF argv.info
    THEN [exited |-> TRUE, files |-> << >>, browsers |-> << >>,
          autoWatch |-> FALSE, singleRun |-> FALSE]
    ELSE [exited |-> FALSE, files |-> files(argv), browsers |-> browsers(argv),
          autoWatch |-> ~argv.nowatch, singleRun |-> argv.nowatch]

\* argv of minimist: the boolean flags, --bundleTest (given once, with
\* commas, or several times) and the suites (argv._).
KarmaProbes ==
    {[f |-> "karma",
      in |-> [info |-> i, nowatch |-> nw, Chrome |-> c, Firefox |-> ff, IE11 |-> ie,
              bundleTest |-> bt, suites |-> su],
      applied |-> FALSE, out |-> << >>] :
        i \in BOOLEAN, nw \in BOOLEAN, c \in BOOLEAN, ff \in BOOLEAN, ie \in BOOLEAN,
        bt \in {<< >>, <<<<"ie9">>>>, <<<<"requirejs", "ie9_test.js">>>>,
                <<<<"minified_bundle">>, <<"ie9">>>>},
        su \in {<< >>, <<<<"axes">>>>, <<<<"axes">>, <<"bar_test.js", "scatter">>>>}}

AngleProbes ==
    {[f |-> "valueToAngle", in |-> [spec |-> s, v |-> v], applied |-> FALSE, out |-> << >>] :
        s \in Ranges, v \in MappedValues}

BulletProbes ==
    {[f |-> "bullet",
      in |-> [spec |-> s, y |-> y, step |-> [range |-> st], threshold |-> th],
      applied |-> FALSE, out |-> << >>] :
        s \in {r \in Ranges : r.max = MaxValue},
        y \in {-1, 1, MaxValue, MaxValue + 1},
        st \in {<<0, 2>>, <<-2, 2>>, <<2, MaxValue>>, <<2, MaxValue + 2>>},
        th \in {1, MaxValue + 1}}

Canvases ==
    {[w |-> 1000, h |-> 1000, l |-> 0, r |-> 0, t |-> 0, b |-> 0],
     [w |-> 400, h |-> 200, l |-> 80, r |-> 80, t |-> 100, b |-> 80]}

Domains ==
    {[x |-> x, y |-> y] :
        x \in {<<0, 50>>, <<0, 100>>, <<25, 75>>}, y \in {<<0, 100>>, <<50, 100>>}}

SizeProbes ==
    {[f |-> "size", in |-> [canvas |-> c, domain |-> d], applied |-> FALSE, out |-> << >>] :
        c \in Canvases, d \in Domains}

\* Drawing.bBox(el.node()) and the box the text is allotted.
FitProbes ==
    {[f |-> "fitTextInside", in |-> [textBB |-> [width |-> bw, height |-> bh],
                                     width |-> w, height |-> h],
      applied |-> FALSE, out |-> << >>] :
        bw \in {50, 100, 200}, bh \in {25, 50}, w \in {85, 100}, h \in {50, 100}}

FnInit ==
    /\ InitPlot
    /\ probe \in AngleProbes \cup BulletProbes \cup SizeProbes \cup FitProbes
                  \cup TransformProbes \cup DefaultsProbes \cup AxisProbes
                  \cup FlagProbes \cup KarmaProbes

plotVars == <<renders, trace, layer, dom, timers, handles, done, scene>>

ApplyValueToAngle ==
    /\ probe.f = "valueToAngle" /\ ~probe.applied
    /\ probe' = [probe EXCEPT !.applied = TRUE,
                              !.out = valueToAngleNumber(probe.in.spec, probe.in.v)]
    /\ UNCHANGED plotVars

\* The value bar, a step and the threshold of a bullet.
ApplyBullet ==
    /\ probe.f = "bullet" /\ ~probe.applied
    /\ probe' = [probe EXCEPT
                   !.applied = TRUE,
                   !.out = [bar |-> bulletWidth(probe.in.spec, [y |-> probe.in.y]),
                            step |-> targetBulletRect(probe.in.spec, probe.in.step),
                            bg |-> targetBulletRect(probe.in.spec, gaugeBg(probe.in.spec)),
                            outline |-> bulletOutlineRect(probe.in.spec,
                                                          gaugeOutline(probe.in.spec)),
                            threshold |-> thresholdX(probe.in.spec, probe.in.threshold)]]
    /\ UNCHANGED plotVars

\* The canvas is an argument that extendFlat copies from; it stays as it is.
ApplySize ==
    /\ probe.f = "size" /\ ~probe.applied
    /\ probe' = [probe EXCEPT !.applied = TRUE,
                              !.out = size(probe.in.canvas, probe.in.domain)]
    /\ UNCHANGED plotVars

ApplyFitTextInside ==
    /\ probe.f = "fitTextInside" /\ ~probe.applied
    /\ probe' = [probe EXCEPT
                   !.applied = TRUE,
                   !.out = [scale |-> transformScale(
                                fitTextInside(probe.in.textBB, probe.in.width,
                                              probe.in.height))]]
    /\ UNCHANGED plotVars

ApplyNumbersTransform ==
    /\ probe.f = "numbersTransform" /\ ~probe.applied
    /\ probe' = [probe EXCEPT
                   !.applied = TRUE,
                   !.out = numbersTransform(probe.in.spec, probe.in.size,
                                            probe.in.textBB)]
    /\ UNCHANGED plotVars

\* supplyDefaults, and then what plot() reads from its result.
ApplySupplyDefaults ==
    /\ probe.f = "supplyDefaults" /\ ~probe.applied
    /\ LET traceOut == supplyDefaults(probe.in)
       IN  probe' = [probe EXCEPT !.applied = TRUE,
                                 !.out = [traceOut |-> traceOut,
                                          undefined |-> Undefined(traceOut)]]
    /\ UNCHANGED plotVars

\* The axes of a call of plot(), and of the calls that follow it on the same
\* trace: out holds the heap and the descriptors made by each call.
ApplyMockAxis ==
    /\ probe.f = "mockAxis"
    /\ LET before == IF probe.applied THEN probe.out
                     ELSE [heap |-> probe.in.heap, made |-> << >>]
           axes == plotAxes(before.heap, probe.in.opts, probe.in.spec)
       IN  /\ Len(before.made) < MaxRenders
           /\ probe' = [probe EXCEPT
                          !.applied = TRUE,
                          !.out = [heap |-> axes.heap,
                                   made |-> Append(before.made, axes.made)]]
    /\ UNCHANGED plotVars

ApplyFlags ==
    /\ probe.f = "flags" /\ ~probe.applied
    /\ probe' = [probe EXCEPT !.applied = TRUE, !.out = flags(probe.in)]
    /\ UNCHANGED plotVars

ApplyKarmaConf ==
    /\ probe.f = "karma" /\ ~probe.applied
    /\ probe' = [probe EXCEPT !.applied = TRUE, !.out = karmaConf(probe.in)]
    /\ UNCHANGED plotVars

FnNext ==
    \/ ApplyKarmaConf
    \/ ApplyFlags
    \/ ApplyMockAxis
    \/ ApplySupplyDefaults
    \/ ApplyValueToAngle
    \/ ApplyBullet
    \/ ApplySize
    \/ ApplyFitTextInside
    \/ ApplyNumbersTransform

FnSpec == FnInit /\ [][FnNext]_vars

-----------------------------------------------------------------------------
\* Vocabulary of the properties.

Kinds == {"number", "delta", "fgArc", "fgBullet"}

InFlight(r, k) == \E i \in 1..Len(timers) : timers[i].r = r /\ timers[i].kind = k
FinishedOf(r, k) == {f \in done : f.r = r /\ f.kind = k}

\* In this step the timer starts the transition timers[i].
StartedNow(i) ==
    /\ timers[i].phase = "scheduled"
    /\ \E j \in 1..Len(timers') :
          /\ timers'[j].r = timers[i].r
          /\ timers'[j].kind = timers[i].kind
          /\ IsActive(timers'[j])

\* The transition timers[i] as it is after the step.
After(i) ==
    CHOOSE u \in {timers'[j] : j \in 1..Len(timers')} :
        u.r = timers[i].r /\ u.kind = timers[i].kind

\* The transition that is active on the node of timers[i], if any.
ActiveOn(node) ==
    {j \in 1..Len(timers) : timers[j].node = node /\ IsActive(timers[j])}

-----------------------------------------------------------------------------
\* C1: every transition a render call schedules (number text, delta text,
\* gauge arc or bar) fires exactly one of 'end' and 'interrupt', and its
\* handler invokes the call's completion handle exactly once: never twice,
\* and never zero times once it has left the timer, which always has a
\* callback to make while a transition is left, whatever later calls do.
C1_ExactlyOnce ==
    /\ \A r \in 1..renders :
          /\ \A k \in handles[r].started :
                IF InFlight(r, k)
                THEN FinishedOf(r, k) = {}
                ELSE /\ Cardinality(FinishedOf(r, k)) = 1
                     /\ \A f \in FinishedOf(r, k) :
                           f.cb = IF handles[r].made THEN 1 ELSE 0
          /\ handles[r].calls =
                Cardinality({f \in done : f.r = r /\ f.cb # 0})
    /\ timers # << >> => ENABLED (Start \/ End)

\* One transition of a call was interrupted by a later call and another ran to
\* its end; both invoked the handle.
C1_Witness ==
    \E f, g \in done :
        /\ f.ev = "interrupt" /\ f.cb = 1
        /\ g.ev = "end" /\ g.cb = 1
        /\ f.r = g.r

\* C2: a completion handle that plot() obtained is invoked at least once, for
\* every mode and every list of instances (stated for the moment at which no
\* transition of the call is left to invoke it).
C2_HandleInvoked ==
    \A r \in 1..renders :
        (handles[r].made /\ \A k \in Kinds : ~InFlight(r, k))
            => handles[r].calls >= 1

\* C3: a delta transition that starts while the previous delta animation of
\* its node is in flight interpolates from trace._deltaLastValue as it was
\* committed, and starting it commits nothing.
C3_FromLastCommitted ==
    [][\A i \in 1..Len(timers) :
          ( /\ timers[i].kind = "delta"
            /\ StartedNow(i)
            /\ \E j \in ActiveOn(timers[i].node) : timers[j].kind = "delta" )
          => /\ After(i).a = trace.deltaLastValue.v
             /\ trace'.deltaLastValue = trace.deltaLastValue]_vars

\* A delta transition has just superseded one whose mid-flight frame is still
\* on screen, and its source is not the value on screen.
C3_Witness ==
    \E i \in 1..Len(timers) :
        /\ timers[i].kind = "delta" /\ IsActive(timers[i])
        /\ \E f \in done : f.kind = "delta" /\ f.ev = "interrupt" /\ f.r < timers[i].r
        /\ dom[timers[i].node].shown.k \in {"increasing", "decreasing"}
        /\ dom[timers[i].node].shown.v # timers[i].a
        /\ timers[i].a = trace.deltaLastValue.v

\* C4: the 'interrupt' handler of a delta animation leaves
\* trace._deltaLastValue as it was and only invokes the completion handle.
C4_InterruptCommitsNothing ==
    \A f \in done :
        (f.kind = "delta" /\ f.ev = "interrupt")
            => /\ f.post = f.pre
               /\ f.cb = IF handles[f.r].made THEN 1 ELSE 0

\* A delta animation heading for a value other than the committed one was
\* interrupted.
C4_Witness ==
    \E f \in done :
        /\ f.kind = "delta" /\ f.ev = "interrupt" /\ f.cb = 1
        /\ f.b # f.pre

\* C5: the 'end' handler of a delta animation commits the delta of the datum
\* bound to the element into trace._deltaLastValue, and the completion handle
\* it then invokes finds the committed value.
C5_CommitBeforeCallback ==
    \A f \in done :
        (f.kind = "delta" /\ f.ev = "end")
            => /\ f.post = (IF f.attrs.showpercentage THEN f.d.relativeDelta ELSE f.d.delta)
               /\ f.cb = 1 => f.saw = f.post

\* A delta animation ended and changed the committed value.
C5_Witness ==
    \E f \in done :
        /\ f.kind = "delta" /\ f.ev = "end" /\ f.cb = 1
        /\ f.post # f.pre
        /\ f.post = f.b

\* C6: when a number animation ends naturally, the value it animated to is
\* committed as the number's source value (lastY of the trace's cd[0]).
C6_NumberCommitted ==
    \A f \in done :
        (f.kind = "number" /\ f.ev = "end") => f.d.lastY = f.b

\* What a node shows once it has been drawn at its final value.
FinalOf(n, attrs, y) ==
    CASE n.cls = "number" -> numberText(n.datum.y)
      [] n.cls = "delta" ->
            deltaFormatText(IF attrs.showpercentage THEN n.datum.relativeDelta
                            ELSE n.datum.delta)
      [] n.cls = "fgArc" -> [k |-> "d", v |-> valueToAngle(attrs, y)]
      [] n.cls = "fgBullet" -> [k |-> "width", v |-> Max2(0, c2p(attrs, Min2(attrs.max, y)))]

\* C7: a render call without transition options, or with a duration of 0,
\* obtains no completion handle, schedules no transition, invokes and
\* schedules no completion callback, and leaves the number text, the delta
\* text and the gauge value shape at their final values.
C7_SyncBypass ==
    [][(renders' = renders + 1 /\ ~handles'[renders'].animated)
          => /\ ~handles'[renders'].made
             /\ handles'[renders'].calls = 0
             /\ handles'[renders'].started = {}
             /\ timers' = timers
             /\ done' = done
             /\ \A r \in 1..renders : handles'[r] = handles[r]
             /\ \A s \in Slots :
                   layer'[s] # 0 =>
                      dom'[<<s, layer'[s]>>].shown =
                         FinalOf(dom'[<<s, layer'[s]>>], trace'.attrs,
                                 handles'[renders'].y)]_vars

\* A synchronous render has drawn the number, the delta and, in another call,
\* a gauge, and left no handle.
C7_Witness ==
    /\ renders = 2
    /\ ~handles[1].animated /\ ~handles[2].animated
    /\ ~handles[2].made
    /\ layer["fgBullet"] # 0
    /\ dom[<<"fgBullet", layer["fgBullet"]>>].shown = [k |-> "width", v |-> 40]
    /\ handles[1].delta.drawn

\* C8: after a render call, no frame of a transition scheduled by an earlier
\* call changes what an element of the instance shows.
C8_NoStaleFrame ==
    [][renders' = renders
          => \A n \in Attached :
                dom'[n].shown # dom[n].shown
                   => \A j \in ActiveOn(n) : timers[j].r = renders]_vars

PreviousShown(r) ==
    /\ r > 1
    /\ handles[r - 1].delta.drawn
    /\ \/ ~handles[r - 1].animated
       \/ \E f \in done : f.r = r - 1 /\ f.kind = "delta" /\ f.ev = "end"

\* C10, as claimed: a delta animation starts from the delta shown by the
\* render call before it, synchronous or animated, and from 0 in the first.
C10_FromPreviousRender ==
    [][\A i \in 1..Len(timers) :
          (timers[i].kind = "delta" /\ StartedNow(i))
          => /\ timers[i].r = 1 => After(i).a = 0
             /\ PreviousShown(timers[i].r)
                   => After(i).a = handles[timers[i].r - 1].delta.v]_vars

\* C10, amended: a delta animation starts from 0 or from the delta that the
\* natural end of an earlier delta animation committed, whatever synchronous
\* renders came in between; a number animation starts from the lastY of the
\* cd[0] its own call was given.
C10_FromLastCommit ==
    \A i \in 1..Len(timers) :
        IsActive(timers[i]) =>
           /\ timers[i].kind = "delta" =>
                 timers[i].a \in
                    {0} \cup {IF f.attrs.showpercentage THEN f.d.relativeDelta
                              ELSE f.d.delta :
                                 f \in {g \in done : g.kind = "delta" /\ g.ev = "end"}}
           /\ timers[i].kind = "number" => timers[i].a = timers[i].cd.lastY

\* A delta animation runs from a value other than the delta that the
\* synchronous render before it had drawn.
C10_Witness ==
    \E i \in 1..Len(timers) :
        /\ timers[i].kind = "delta" /\ IsActive(timers[i])
        /\ timers[i].r > 1
        /\ ~handles[timers[i].r - 1].animated
        /\ handles[timers[i].r - 1].delta.drawn
        /\ timers[i].a # handles[timers[i].r - 1].delta.v

\* C11: trace._deltaLastValue is written only by the natural end of a delta
\* transition, apart from its initialisation to 0 by the first render: a
\* render call, synchronous or not, the start of a transition, an interrupt
\* and a frame leave its value as it was.
C11_WrittenAtCompletionOnly ==
    [][/\ trace'.deltaLastValue.v # trace.deltaLastValue.v
            => \E f \in done' \ done : f.kind = "delta" /\ f.ev = "end"
       /\ trace'.deltaLastValue.set # trace.deltaLastValue.set
            => /\ renders' = renders + 1
               /\ ~trace.deltaLastValue.set
               /\ trace'.deltaLastValue = [set |-> TRUE, v |-> 0]
       /\ renders' # renders
            => trace'.deltaLastValue.v = trace.deltaLastValue.v]_vars

\* A synchronous render has drawn a delta other than the one an earlier
\* animation committed, and the committed value is still there.
C11_Witness ==
    \E f \in done :
        /\ f.kind = "delta" /\ f.ev = "end" /\ f.post # 0
        /\ f.r < renders
        /\ ~handles[renders].animated
        /\ handles[renders].delta.drawn
        /\ handles[renders].delta.v # f.post
        /\ trace.deltaLastValue = [set |-> TRUE, v |-> f.post]

\* C12: for max > min, valueToAngle(v) lies in [-pi/2, pi/2], is -pi/2 for
\* every v <= min and pi/2 for every v >= max, and is monotonic
\* non-decreasing in v.
C12_AngleSaturates ==
    (probe.f = "valueToAngle" /\ probe.applied /\ probe.in.spec.max > probe.in.spec.min)
        => /\ ~probe.out.nan
           /\ -theta <= probe.out.v /\ probe.out.v <= theta
           /\ probe.in.v <= probe.in.spec.min => probe.out.v = -theta
           /\ probe.in.v >= probe.in.spec.max => probe.out.v = theta
           /\ \A u \in MappedValues :
                 u <= probe.in.v => valueToAngle(probe.in.spec, u) <= probe.out.v

\* A value above max is mapped to pi/2, while a value inside the range is
\* mapped strictly inside the half circle.
C12_Witness ==
    /\ probe.f = "valueToAngle" /\ probe.applied
    /\ probe.in.spec.max > probe.in.spec.min + 1
    /\ probe.in.v > probe.in.spec.max
    /\ probe.out = [nan |-> FALSE, v |-> theta]
    /\ valueToAngle(probe.in.spec, probe.in.spec.min + 1) \in (1 - theta)..(theta - 1)

\* C13: with max = min, valueToAngle returns a defined angle, the midpoint of
\* the half circle, for every value (never NaN).
C13_DegenerateDefined ==
    (probe.f = "valueToAngle" /\ probe.applied /\ probe.in.spec.max = probe.in.spec.min)
        => /\ ~probe.out.nan
           /\ probe.out.v = 0

\* C14: on a bullet gauge the value bar, a step rect and the threshold line
\* lie inside the pixel span [c2p(min), c2p(max)] of the gauge, whatever the
\* value, the step range and the threshold value are.
C14_InsideSpan ==
    (probe.f = "bullet" /\ probe.applied)
        => LET lo == c2p(probe.in.spec, probe.in.spec.min)
               hi == c2p(probe.in.spec, probe.in.spec.max)
           IN  /\ lo <= probe.out.bar /\ probe.out.bar <= hi
               /\ lo <= probe.out.step.x
               /\ probe.out.step.x + probe.out.step.width <= hi
               /\ lo <= probe.out.threshold /\ probe.out.threshold <= hi

\* C15: the domain size is {w: W(x1-x0), h: H(y1-y0), l: L+W x0,
\* r: R+W(1-x1), t: T+H(1-y1), b: B+H y0}, so that l+w+r = L+W+R and
\* t+h+b = T+H+B; the canvas {w:1000, h:1000, l:0, r:0, t:0, b:0} with the
\* domain x = [0, 0.5], y = [0, 1] gives w = 500, l = 0, r = 500.
C15_DomainSize ==
    (probe.f = "size" /\ probe.applied)
        => LET c == probe.in.canvas
               x == probe.in.domain.x
               y == probe.in.domain.y
               o == probe.out
           IN  /\ 100 * o.w = c.w * (x[2] - x[1])
               /\ 100 * o.h = c.h * (y[2] - y[1])
               /\ 100 * (o.l - c.l) = c.w * x[1]
               /\ 100 * (o.r - c.r) = c.w * (100 - x[2])
               /\ 100 * (o.t - c.t) = c.h * (100 - y[2])
               /\ 100 * (o.b - c.b) = c.h * y[1]
               /\ o.l + o.w + o.r = c.l + c.w + c.r
               /\ o.t + o.h + o.b = c.t + c.h + c.b
               /\ (c = [w |-> 1000, h |-> 1000, l |-> 0, r |-> 0, t |-> 0, b |-> 0]
                     /\ x = <<0, 50>> /\ y = <<0, 100>>)
                       => o.w = 500 /\ o.l = 0 /\ o.r = 500

\* The size of the left half of the 1000 x 1000 canvas has been computed.
C15_Witness ==
    /\ probe.f = "size" /\ probe.applied
    /\ probe.in.canvas.w = 1000
    /\ probe.in.domain = [x |-> <<0, 50>>, y |-> <<0, 100>>]
    /\ probe.out.w = 500 /\ probe.out.r = 500 /\ probe.out.h = 1000

\* C20: the scale applied to a text is min(maxWidth / boxWidth,
\* maxHeight / boxHeight) capped at 1: never more than 1, and 1 (no scale)
\* for a text that exactly matches its box.
C20_ScaleCapped ==
    (probe.f = "fitTextInside" /\ probe.applied)
        => LET i == probe.in
               byWidth == (1000 * i.width) \div i.textBB.width
               byHeight == (1000 * i.height) \div i.textBB.height
           IN  /\ probe.out.scale <= 1000
               /\ probe.out.scale = Min2(1000, Min2(byWidth, byHeight))
               /\ (i.textBB.width = i.width /\ i.textBB.height = i.height)
                     => probe.out.scale = 1000

\* A text half as wide and as high as its box is left at its size.
C20_Witness ==
    /\ probe.f = "fitTextInside" /\ probe.applied
    /\ 2 * probe.in.textBB.width <= probe.in.width
    /\ 2 * probe.in.textBB.height <= probe.in.height
    /\ probe.out.scale = 1000

\* The elements of a class among the given ones, and what they draw.
OfClass(kids, cls) == SelectSeq(kids, LAMBDA e : e.cls = cls)
Roles(kids) == [p \in 1..Len(kids) |-> kids[p].role]
KidsOf(cls) == OfClass(scene.top, cls)[1].kids

\* This step is a call of plot() that draws the trace again.
Redraws == renders' = renders + 1 /\ scene.calls >= 1 /\ scene'.calls = scene.calls + 1

\* C16: drawing a trace a second time with identical attributes leaves the
\* elements of the scene as they are, in every category (title, numbers and
\* tspans, gauge, arcs, value shape, outline, axis layers, bullet, threshold):
\* none is added, none is left over.
C16_Idempotent ==
    [][(Redraws /\ trace'.attrs = trace.attrs)
          => scene'.top = scene.top /\ scene'.layout = scene.layout]_vars

\* An angular gauge with two steps and a threshold has been drawn twice.
C16_Witness ==
    /\ scene.calls = 2
    /\ scene.prev = trace.attrs
    /\ isAngular(trace.attrs) /\ Len(trace.attrs.steps) = 2 /\ trace.attrs.threshold # 0
    /\ Len(scene.top) = 4
    /\ Len(KidsOf("gauge")) = 6

\* C17: after any sequence of renders the elements of the scene are exactly
\* those of the last render: one title, one numbers text with the tspans of
\* its mode, the angular gauge with its axis layer or the bullet with its
\* axis layer (never both) when the mode has a gauge, with one element per
\* step, a threshold when there is one, one value shape and one outline.
C17_SceneOfLastRender ==
    IF scene.calls = 0 THEN scene.top = << >>
    ELSE LET spec == trace.attrs
             n(cls) == Len(OfClass(scene.top, cls))
             one(flag) == IF flag THEN 1 ELSE 0
         IN  /\ n("title") = 1 /\ n("numbers") = 1
             /\ Roles(KidsOf("numbers")) = tspanData(spec)
             /\ n("gauge") = one(isAngular(spec))
             /\ n("angularaxis") = one(isAngular(spec))
             /\ n("bullet") = one(isBullet(spec))
             /\ n("bulletaxis") = one(isBullet(spec))
             /\ n("gauge") + n("bullet") <= 1
             /\ Len(scene.top) = 2 + 2 * one(hasGauge(spec))
             /\ isAngular(spec) =>
                   /\ Roles(OfClass(KidsOf("gauge"), "targetArc")) = arcs(spec)
                   /\ Roles(OfClass(KidsOf("gauge"), "fgArc")) = <<"value">>
                   /\ Roles(OfClass(KidsOf("gauge"), "gaugeOutline")) = <<"outline">>
                   /\ Len(KidsOf("gauge")) = Len(arcs(spec)) + 2
             /\ isBullet(spec) =>
                   /\ Roles(OfClass(KidsOf("bullet"), "targetBullet"))
                         = <<"bg">> \o spec.steps
                   /\ Roles(OfClass(KidsOf("bullet"), "fgBullet")) = <<"value">>
                   /\ Roles(OfClass(KidsOf("bullet"), "threshold"))
                         = Filtered(spec.threshold # 0, "threshold")
                   /\ Roles(OfClass(KidsOf("bullet"), "bulletOutline")) = <<"outline">>
                   /\ Len(KidsOf("bullet"))
                         = Len(spec.steps) + 3 + Len(Filtered(spec.threshold # 0, "threshold"))

\* An angular gauge with steps and a threshold was drawn, and then a bullet
\* without any: only the bullet is left.
C17_Witness ==
    /\ scene.calls = 2
    /\ isAngular(scene.prev) /\ Len(scene.prev.steps) = 2 /\ scene.prev.threshold # 0
    /\ isBullet(trace.attrs) /\ trace.attrs.steps = << >>
    /\ Roles(scene.top) = <<"title", "numbers", "bullet", "axis">>
    /\ Roles(KidsOf("bullet")) = <<"bg", "value", "outline">>

\* The layout of the title and of the numbers: position, font size and
\* allotted box (the anchors depend on the alignment only).
NumberAndTitle(layout) ==
    <<layout.titleX, layout.titleY, layout.titleFontSize, layout.numbersX,
      layout.numbersY, layout.bignumberFontSize, layout.numbersMaxWidth,
      layout.numbersMaxHeight>>

\* This step draws again a trace that showed a number only, with the gauge
\* added to its mode and nothing else changed.
AddsGauge ==
    /\ Redraws
    /\ trace.attrs.mode = {"bignumber"}
    /\ trace'.attrs = [trace.attrs EXCEPT !.mode = {"bignumber", "gauge"}]

\* The elements of the gauge follow those that were there, which are kept.
GaugeAppended ==
    /\ Len(scene'.top) = Len(scene.top) + 2
    /\ SubSeq(scene'.top, 1, Len(scene.top)) = scene.top
    /\ <<scene'.top[Len(scene.top) + 1].cls, scene'.top[Len(scene.top) + 2].cls>>
          = IF trace'.attrs.shape = "angular" THEN <<"gauge", "angularaxis">>
            ELSE <<"bullet", "bulletaxis">>

\* C18, as claimed: adding the gauge to the mode of a trace that shows a
\* number adds exactly the elements of the gauge and leaves the layout of the
\* number and of the title (position, font size, allotted box) as it was.
C18_LayoutKept ==
    [][AddsGauge
          => /\ GaugeAppended
             /\ NumberAndTitle(scene'.layout) = NumberAndTitle(scene.layout)]_vars

\* C18, amended: adding the gauge adds exactly the gauge group and its axis
\* layer, after the title and the numbers, which are kept; the layout of the
\* number and of the title is computed again for the gauge, and the box
\* allotted to the numbers becomes narrower.
C18_GaugeAdded ==
    [][AddsGauge
          => /\ GaugeAppended
             /\ scene'.layout.numbersMaxWidth < scene.layout.numbersMaxWidth
             /\ scene'.layout.titleX <= scene.layout.titleX]_vars

\* A bullet has been added to a trace that showed a number.
C18_Witness ==
    /\ scene.calls = 2
    /\ scene.prev.mode = {"bignumber"}
    /\ trace.attrs = [scene.prev EXCEPT !.mode = {"bignumber", "gauge"}]
    /\ isBullet(trace.attrs)
    /\ Roles(scene.top) = <<"title", "numbers", "bullet", "axis">>
    /\ Roles(KidsOf("numbers")) = <<"number">>

\* C19: the elements of the gauge, angular or bullet, are in the order
\* background, steps as declared, threshold, value shape, outline, after any
\* sequence of renders.
C19_DrawnOrder ==
    LET spec == trace.attrs
        order == <<"bg">> \o spec.steps \o Filtered(spec.threshold # 0, "threshold")
                    \o <<"value", "outline">>
    IN  scene.calls >= 1
          => /\ isAngular(spec) => Roles(KidsOf("gauge")) = order
             /\ isBullet(spec) => Roles(KidsOf("bullet")) = order

\* C21: whatever the box allotted to the numbers and whatever the measured box
\* of the text (an empty domain, a domain too low for its gauge, an empty
\* text), a scale that is part of the transform is finite and strictly
\* positive: never scale(0), a negative scale or NaN.
C21_ScaleGuarded ==
    (probe.f = "numbersTransform" /\ probe.applied /\ probe.out.scaled)
        => /\ probe.out.scaleRatio.kind = "finite"
           /\ probe.out.scaleRatio.num > 0

\* C22: every trace that supplyDefaults hands to plot() has max > min, also
\* when max is not given and defaults to 1.5 * value, for every value.
C22_MaxAboveMin ==
    (probe.f = "supplyDefaults" /\ probe.applied)
        => probe.out.traceOut.max > probe.out.traceOut.min

\* C23: every attribute that plot() reads from the trace is one that
\* supplyDefaults set under the same name: none is undefined, the relative
\* size of the value shape, of the threshold and of a step, and the alignment
\* of the title included.
C23_NothingUndefined ==
    (probe.f = "supplyDefaults" /\ probe.applied) => probe.out.undefined = {}

\* C24: building the axis descriptors of a call never changes
\* trace.gauge.axis: every write goes to a descriptor that did not exist
\* before the call, and no two descriptors, of one call or of two, are the
\* same object.
C24_DescriptorsFresh ==
    (probe.f = "mockAxis" /\ probe.applied)
        => LET made == probe.out.made
               refs == {made[c][k] : c \in 1..Len(made), k \in 1..2}
           IN  /\ probe.out.heap[probe.in.opts] = probe.in.heap[probe.in.opts]
               /\ probe.in.opts \notin refs
               /\ refs \cap (1..Len(probe.in.heap)) = {}
               /\ Cardinality(refs) = 2 * Len(made)
               /\ \A c \in 1..Len(made) :
                     /\ probe.out.heap[made[c][1]]._id = "angularaxis"
                     /\ probe.out.heap[made[c][1]].range
                           = <<probe.in.spec.min, probe.in.spec.max>>
                     /\ probe.out.heap[made[c][2]].position = 0

\* Two calls have built their axes for a trace whose gauge.axis has options.
C24_Witness ==
    /\ probe.f = "mockAxis" /\ probe.applied
    /\ Len(probe.out.made) = 2
    /\ probe.out.made[1] # probe.out.made[2]
    /\ Len(probe.out.heap) = 5
    /\ probe.in.heap[1].tickmode = "linear"
    /\ probe.out.heap[probe.out.made[2][1]].tickmode = "linear"

\* C25, as claimed: for every mode and gauge shape the font size of the delta
\* is half that of the number when the number is shown too, and the same
\* size otherwise.
C25_HalfOrEqual ==
    scene.calls >= 1
        => scene.layout.deltaFontSize
             = IF hasBigNumber(trace.attrs) THEN scene.layout.bignumberFontSize \div 2
               ELSE scene.layout.bignumberFontSize

\* C25, amended: the font size of the delta is a fixed fraction of that of the
\* number, which depends on the gauge: without a gauge 0.5 with the number and
\* 1 without it; with an angular gauge 0.35 and 0.75; with a bullet 0.5 and
\* 0.75.
C25_FractionByGauge ==
    scene.calls >= 1
        => LET spec == trace.attrs
               percent == IF ~hasGauge(spec) THEN (IF hasBigNumber(spec) THEN 50 ELSE 100)
                          ELSE IF ~hasBigNumber(spec) THEN 75
                          ELSE IF isAngular(spec) THEN 35 ELSE 50
           IN  scene.layout.deltaFontSize
                 = (percent * scene.layout.bignumberFontSize) \div 100

\* A delta has been laid out next to a number inside an angular gauge, and
\* another on its own under a bullet.
C25_Witness ==
    /\ scene.calls = 2
    /\ scene.prev.mode = {"bignumber", "delta", "gauge"} /\ isAngular(scene.prev)
    /\ trace.attrs.mode = {"delta", "gauge"} /\ isBullet(trace.attrs)
    /\ scene.layout.bignumberFontSize > 0
    /\ 4 * scene.layout.deltaFontSize = 3 * scene.layout.bignumberFontSize

C27_RectsSpanRange ==
    (probe.f = "bullet" /\ probe.applied)
        => LET spec == probe.in.spec
               lo == probe.in.step.range[1]
               hi == probe.in.step.range[2]
               o == probe.out
           IN  /\ o.bg.x = c2p(spec, spec.min)
               /\ o.bg.x + o.bg.width = c2p(spec, spec.max)
               /\ o.outline.x = c2p(spec, spec.min)
               /\ o.outline.x + o.outline.width = c2p(spec, spec.max)
               /\ o.step.x = c2p(spec, lo)
               /\ o.step.x + o.step.width = c2p(spec, hi)

\* C28: the handle that an end or interrupt event invokes is the handle of
\* the call of plot() that scheduled the transition: the invocations of the
\* handle of a call are exactly those made by the handlers of its own
\* transitions, also when a later call interrupts them.
C28_OwnHandle ==
    \A r \in 1..Len(handles) :
        handles[r].calls = Cardinality({f \in done : f.r = r /\ f.cb = 1})

\* The second call has interrupted a transition of the first: the handle of
\* the first was invoked for it, its own was not invoked yet.
C28_Witness ==
    /\ renders = 2
    /\ handles[1].made /\ handles[2].made
    /\ \E f \in done : f.r = 1 /\ f.ev = "interrupt" /\ f.cb = 1
    /\ handles[1].calls >= 1
    /\ handles[2].calls = 0
    /\ \E i \in 1..Len(timers) : timers[i].r = 2 /\ IsActive(timers[i])

\* The fill of a delta tspan: .style('fill', deltaFill) is applied by every
\* call of plot() to the datum it binds.
FillOf(node) == deltaFill(dom[node].datum)

\* C29: whenever the delta shows a text, in a frame of its animation or
\* after it, the direction of the text (the increasing symbol, the decreasing
\* symbol, '-' for zero) agrees with that of its fill (the increasing colour
\* for delta >= 0, the decreasing colour otherwise).
C29_TextAgreesWithFill ==
    \A node \in Attached :
        (dom[node].cls = "delta" /\ dom[node].shown.k \in {"increasing", "decreasing", "-"})
            => FillOf(node) = IF dom[node].shown.k = "decreasing" THEN "decreasing"
                              ELSE "increasing"

\* The test file globs among the files of a configuration.
TestGlobs(conf) ==
    {i \in 1..Len(conf.files) : conf.files[i].dir \in {"tests", "bundle_tests"}}

\* C30: a karma configuration has at least one browser, ['_Chrome'] when
\* none of --Chrome, --Firefox, --IE11 is given, and exactly one test file
\* glob, loaded last; of several bundle tests only the first is run; and
\* singleRun is the negation of autoWatch.
C30_KarmaConf ==
    (probe.f = "karma" /\ probe.applied /\ ~probe.out.exited)
        => LET argv == probe.in
               conf == probe.out
               last == conf.files[Len(conf.files)]
           IN  /\ Len(conf.browsers) >= 1
               /\ (~argv.Chrome /\ ~argv.Firefox /\ ~argv.IE11)
                     => conf.browsers = <<"_Chrome">>
               /\ argv.Chrome => conf.browsers[1] = "_Chrome"
               /\ TestGlobs(conf) = {Len(conf.files)}
               /\ argv.bundleTest # << >>
                     => /\ last.dir = "bundle_tests"
                        /\ last.pattern.names = <<basename(argv.bundleTest[1][1])>>
               /\ (argv.bundleTest = << >> /\ argv.suites = << >>)
                     => last = Path("tests", glob(<<"*">>))
               /\ conf.singleRun = ~conf.autoWatch

\* Two bundle tests on Firefox without a watch: only requirejs is run.
C30_Witness ==
    /\ probe.f = "karma" /\ probe.applied /\ ~probe.out.exited
    /\ probe.in.bundleTest = <<<<"requirejs", "ie9_test.js">>>>
    /\ probe.in.Firefox /\ ~probe.in.Chrome /\ probe.in.nowatch
    /\ probe.out.browsers[1] = "_Firefox"
    /\ probe.out.files[Len(probe.out.files)].pattern.names = <<"requirejs">>
    /\ Len(probe.out.files) = 3
    /\ probe.out.singleRun /\ ~probe.out.autoWatch

====
